---- MODULE Spec2Model ----
(***************************************************************************)
(* Model of server.js of lsa-kitstore: the booking dashboard backend.      *)
(* The source file holds two builds of the server one after the other:     *)
(* lines 1-282 (Basic-Auth protected, category overrides, curated lists)   *)
(* and lines 284-520 (no auth, name-based categories).  The variable       *)
(* `variant` says which build runs.                                        *)
(*                                                                         *)
(* JavaScript strings are sequences of one-character strings, so that      *)
(* toLowerCase, trim, includes and concatenation are computed.             *)
(***************************************************************************)
EXTENDS Integers, Sequences, FiniteSets, TLC

VARIABLES
    variant,      \* 1: build of lines 1-282, 2: build of lines 284-520
    listsFile,    \* lists.json       [exists, data]
    catFile,      \* categories.json  [exists, data]
    statusFile,   \* statuses.json    [exists, data]
    tz,           \* the process's time zone: local time = UTC + tz minutes
    now,          \* Date.now(), in ms since the process started
    defaultLists, \* the object DEFAULT_LISTS (line 50), which readLists hands out
    cachedJwt,    \* module variable cachedJwt (<<>> models null)
    jwtExpiry,    \* module variable jwtExpiry
    req,          \* the requests in flight, one per slot
    acked,        \* history: per override key, the value last acknowledged
    probe         \* inputs and results of the pure-function specifications

vars == <<variant, listsFile, catFile, statusFile, tz, now, defaultLists, cachedJwt,
          jwtExpiry, req, acked, probe>>

(***************************************************************************)
(* Bounds of the model.                                                    *)
(***************************************************************************)
NSlots == 3

Slots == 1..NSlots

(***************************************************************************)
(* JavaScript strings.                                                     *)
(***************************************************************************)
UpperChars == <<"A","B","C","D","E","F","G","H","I","J","K","L","M",
                "N","O","P","Q","R","S","T","U","V","W","X","Y","Z">>

LowerChars == <<"a","b","c","d","e","f","g","h","i","j","k","l","m",
                "n","o","p","q","r","s","t","u","v","w","x","y","z">>

LowerChar(c) ==
    IF \E i \in 1..26 : UpperChars[i] = c
    THEN LowerChars[CHOOSE i \in 1..26 : UpperChars[i] = c]
    ELSE c

toLowerCase(s) == [i \in 1..Len(s) |-> LowerChar(s[i])]

IsSpace(c) == c \in {" ", "\t", "\n"}

SetMin(S) == CHOOSE m \in S : \A n \in S : m <= n

SetMax(S) == CHOOSE m \in S : \A n \in S : m >= n

trim(s) ==
    LET keep == {i \in 1..Len(s) : ~IsSpace(s[i])}
    IN  IF keep = {} THEN <<>> ELSE SubSeq(s, SetMin(keep), SetMax(keep))

includes(s, sub) ==
    \E i \in 0..(Len(s) - Len(sub)) : SubSeq(s, i + 1, i + Len(sub)) = sub

RECURSIVE join(_, _)
join(parts, sep) ==
    IF parts = <<>> THEN <<>>
    ELSE IF Len(parts) = 1 THEN parts[1]
    ELSE parts[1] \o sep \o join(Tail(parts), sep)

RECURSIVE filterBoolean(_)
filterBoolean(parts) ==
    IF parts = <<>> THEN <<>>
    ELSE IF parts[1] = <<>> THEN filterBoolean(Tail(parts))
    ELSE <<parts[1]>> \o filterBoolean(Tail(parts))

(***************************************************************************)
(* JSON values of a request body: a string, a number or a missing field.   *)
(* s is what String(v) gives.                                              *)
(***************************************************************************)
JStr(s) == [t |-> "string", s |-> s]

JNum(s) == [t |-> "number", s |-> s]

JUndef == [t |-> "undefined", s |-> <<"u","n","d","e","f","i","n","e","d">>]

Falsy(j) == j.t = "undefined" \/ (j.t = "string" /\ j.s = <<>>)

\* v.toLowerCase() throws a TypeError unless v is a string
HasToLowerCase(j) == j.t = "string"

(***************************************************************************)
(* Plain objects used as maps, and the JSON files that persist them.       *)
(***************************************************************************)
EmptyMap == <<>>

Put(m, k, v) == [x \in (DOMAIN m) \cup {k} |-> IF x = k THEN v ELSE m[x]]

Del(m, k) == [x \in (DOMAIN m) \ {k} |-> m[x]]

\* if (m[k]): the property exists and is a non-empty string
Truthy(m, k) == k \in DOMAIN m /\ m[k] # <<>>

NoFile == [exists |-> FALSE, data |-> EmptyMap]

File(m) == [exists |-> TRUE, data |-> m]

(***************************************************************************)
(* norm (line 113) and decideCategory (lines 114-126).                     *)
(***************************************************************************)
sLighting == <<"l","i","g","h","t","i","n","g">>
sVideo == <<"v","i","d","e","o">>
sCamera == <<"c","a","m","e","r","a">>
sLens == <<"l","e","n","s">>
sSound == <<"s","o","u","n","d">>
sAudio == <<"a","u","d","i","o">>
sMic == <<"m","i","c">>
sGrip == <<"g","r","i","p">>
sTripod == <<"t","r","i","p","o","d">>
sStand == <<"s","t","a","n","d">>
sUncategorised == <<"u","n","c","a","t","e","g","o","r","i","s","e","d">>

norm(s) == trim(toLowerCase(s))

\* the nine category-hint fields of a row, in the order of lines 118-119
HintFields == <<"assetcategoryname", "categoryname", "assetcategory", "category",
                "assettypecategory", "groupname", "department", "parentcategory",
                "subcategory">>

hintText(row) ==
    join(filterBoolean([i \in 1..Len(HintFields) |-> norm(row.hints[i])]), <<" ">>)

\* the resolution with the upstream hints asked before the override
decideCategoryHintsFirst(row, assetName, overrides) ==
    LET key == norm(assetName)
        raw == hintText(row)
    IN  IF includes(raw, sLighting) THEN sLighting
        ELSE IF includes(raw, sVideo) \/ includes(raw, sCamera) \/ includes(raw, sLens)
             THEN sVideo
        ELSE IF includes(raw, sSound) \/ includes(raw, sAudio) \/ includes(raw, sMic)
             THEN sSound
        ELSE IF includes(raw, sGrip) \/ includes(raw, sTripod) \/ includes(raw, sStand)
             THEN sGrip
        ELSE IF Truthy(overrides, key) THEN overrides[key]
        ELSE sUncategorised

\* lines 114-126
decideCategory(row, assetName, overrides) ==
    LET key == norm(assetName)
        raw == hintText(row)
    IN  IF Truthy(overrides, key) THEN overrides[key]
        ELSE IF includes(raw, sLighting) THEN sLighting
        ELSE IF includes(raw, sVideo) \/ includes(raw, sCamera) \/ includes(raw, sLens)
             THEN sVideo
        ELSE IF includes(raw, sSound) \/ includes(raw, sAudio) \/ includes(raw, sMic)
             THEN sSound
        ELSE IF includes(raw, sGrip) \/ includes(raw, sTripod) \/ includes(raw, sStand)
             THEN sGrip
        ELSE sUncategorised

(***************************************************************************)
(* Dates.  A Date is [valid, min, ms]: min whole minutes since the epoch   *)
(* and ms the milliseconds within that minute, so getTime() is             *)
(* min * 60000 + ms (kept in two parts: it does not fit 32 bits).          *)
(* A booking's startdatetime is [shape, y, m, d, hh, mi, ss, time]:        *)
(*   "dmy"   DD/MM/YYYY, and " HH:MM:SS" when time is TRUE                 *)
(*   "ymd"   YYYY-MM-DD, and " HH:MM:SS" when time is TRUE                 *)
(*   "iso"   YYYY-MM-DDTHH:MM:SS                                           *)
(*   "junk"  garbage                                                       *)
(*   "empty" the field is missing or empty                                 *)
(* rawString gives its characters.                                         *)
(***************************************************************************)
DigitChars == <<"0","1","2","3","4","5","6","7","8","9">>

pad2(n) == <<DigitChars[((n \div 10) % 10) + 1], DigitChars[(n % 10) + 1]>>

pad3(n) == <<DigitChars[((n \div 100) % 10) + 1]>> \o pad2(n % 100)

pad4(n) == pad2((n \div 100) % 100) \o pad2(n % 100)

sUnknown == <<"U","n","k","n","o","w","n">>
sGarbage == <<"g","a","r","b","a","g","e">>

timeString(ts) == pad2(ts.hh) \o <<":">> \o pad2(ts.mi) \o <<":">> \o pad2(ts.ss)

rawString(ts) ==
    CASE ts.shape = "dmy" ->
            pad2(ts.d) \o <<"/">> \o pad2(ts.m) \o <<"/">> \o pad4(ts.y)
            \o (IF ts.time THEN <<" ">> \o timeString(ts) ELSE <<>>)
      [] ts.shape = "ymd" ->
            pad4(ts.y) \o <<"-">> \o pad2(ts.m) \o <<"-">> \o pad2(ts.d)
            \o (IF ts.time THEN <<" ">> \o timeString(ts) ELSE <<>>)
      [] ts.shape = "iso" ->
            pad4(ts.y) \o <<"-">> \o pad2(ts.m) \o <<"-">> \o pad2(ts.d)
            \o <<"T">> \o timeString(ts)
      [] ts.shape = "junk" -> sGarbage
      [] OTHER -> <<>>

\* days since 1970-01-01 of a civil date, and back
daysFromCivil(y, m, d) ==
    LET yy  == IF m <= 2 THEN y - 1 ELSE y
        era == yy \div 400
        yoe == yy - era * 400
        mp  == IF m > 2 THEN m - 3 ELSE m + 9
        doy == (153 * mp + 2) \div 5 + d - 1
        doe == yoe * 365 + yoe \div 4 - yoe \div 100 + doy
    IN  era * 146097 + doe - 719468

civilFromDays(days) ==
    LET z   == days + 719468
        era == z \div 146097
        doe == z - era * 146097
        yoe == (doe - doe \div 1460 + doe \div 36524 - doe \div 146096) \div 365
        doy == doe - (365 * yoe + yoe \div 4 - yoe \div 100)
        mp  == (5 * doy + 2) \div 153
        d   == doy - (153 * mp + 2) \div 5 + 1
        m   == IF mp < 10 THEN mp + 3 ELSE mp - 9
        y   == yoe + era * 400 + (IF m <= 2 THEN 1 ELSE 0)
    IN  [y |-> y, m |-> m, d |-> d]

isLeap(y) == (y % 4 = 0 /\ y % 100 # 0) \/ y % 400 = 0

daysInMonth(y, m) ==
    IF m = 2 THEN (IF isLeap(y) THEN 29 ELSE 28)
    ELSE IF m \in {4, 6, 9, 11} THEN 30 ELSE 31

InvalidDate == [valid |-> FALSE, min |-> 0, ms |-> 0]

\* new Date(y, m, d, hh, mi, ss) read as UTC (off = 0) or as local time (off = tz)
dateOf(y, m, d, hh, mi, ss, off) ==
    IF m \in 1..12 /\ d \in 1..daysInMonth(y, m) /\ hh \in 0..23 /\ mi \in 0..59
       /\ ss \in 0..59
    THEN [valid |-> TRUE,
          min   |-> daysFromCivil(y, m, d) * 1440 + hh * 60 + mi - off,
          ms    |-> ss * 1000]
    ELSE InvalidDate

\* new Date(raw.replace(' ', 'T')) as V8 parses it: YYYY-MM-DDTHH:MM:SS is local
\* time, YYYY-MM-DD alone is UTC, NN/NN/YYYY alone is month/day/year local time,
\* NN/NN/YYYYTHH:MM:SS and garbage are Invalid Date.
parseDirect(ts, zone) ==
    CASE ts.shape = "iso" -> dateOf(ts.y, ts.m, ts.d, ts.hh, ts.mi, ts.ss, zone)
      [] ts.shape = "ymd" /\ ts.time ->
            dateOf(ts.y, ts.m, ts.d, ts.hh, ts.mi, ts.ss, zone)
      [] ts.shape = "ymd" /\ ~ts.time -> dateOf(ts.y, ts.m, ts.d, 0, 0, 0, 0)
      [] ts.shape = "dmy" /\ ~ts.time -> dateOf(ts.y, ts.d, ts.m, 0, 0, 0, zone)
      [] OTHER -> InvalidDate

NaN == 0 - 1

NoParts == [ok |-> FALSE, d |-> NaN, m |-> NaN, y |-> NaN]

\* lines 74-88.  In the "iso" shape the date part is the whole string, whose
\* third '-' field is "DDTHH:MM:SS": +dd is NaN.
parseStartDateParts(ts) ==
    CASE ts.shape = "empty" -> NoParts
      [] ts.shape = "dmy" -> [ok |-> TRUE, d |-> ts.d, m |-> ts.m, y |-> ts.y]
      [] ts.shape = "ymd" -> [ok |-> TRUE, d |-> ts.d, m |-> ts.m, y |-> ts.y]
      [] ts.shape = "iso" -> [ok |-> TRUE, d |-> NaN, m |-> ts.m, y |-> ts.y]
      [] OTHER -> NoParts

\* new Date() of the request: the local calendar day
localDay(nowMin, zone) == civilFromDays((nowMin + zone) \div 1440)

\* lines 89-92
isSameDayStart(ts, day) ==
    LET p == parseStartDateParts(ts)
    IN  /\ p.ok
        /\ p.d # NaN
        /\ p.y = day.y /\ p.m = day.m /\ p.d = day.d

\* Date.prototype.toISOString
toISOString(date) ==
    LET c   == civilFromDays(date.min \div 1440)
        rem == date.min % 1440
    IN  pad4(c.y) \o <<"-">> \o pad2(c.m) \o <<"-">> \o pad2(c.d) \o <<"T">>
        \o pad2(rem \div 60) \o <<":">> \o pad2(rem % 60) \o <<":">>
        \o pad2(date.ms \div 1000) \o <<".">> \o pad3(date.ms % 1000) \o <<"Z">>

\* the instant rounded to the nearest window boundary
roundToWindow(date, minutes) ==
    [valid |-> TRUE, min |-> ((date.min + minutes \div 2) \div minutes) * minutes, ms |-> 0]

\* new Date(Math.floor(d.getTime() / ms) * ms), ms = minutes * 60 * 1000:
\* with getTime() = min * 60000 + r and 0 <= r < 60000 the quotient is
\* floor(min / minutes)
floorToWindow(date, minutes) ==
    [valid |-> TRUE, min |-> (date.min \div minutes) * minutes, ms |-> 0]

\* lines 96-103 (build 1): the direct parse, then the day/month/year fallback
parseForBucket1(ts, zone) ==
    LET d1 == parseDirect(ts, zone)
        p  == parseStartDateParts(ts)
    IN  IF d1.valid THEN d1
        ELSE IF p.ok /\ p.d # NaN
             THEN (IF ts.time
                   THEN dateOf(p.y, p.m, p.d, ts.hh, ts.mi, ts.ss, zone)
                   ELSE dateOf(p.y, p.m, p.d, 0, 0, 0, zone))
             ELSE InvalidDate

\* lines 93-107 (build 1)
getTimeBucket1(ts, minutes, zone) ==
    IF ts.shape = "empty" THEN sUnknown
    ELSE
      LET d2 == parseForBucket1(ts, zone)
      IN  IF ~d2.valid THEN rawString(ts)
          ELSE toISOString(floorToWindow(d2, minutes))

\* lines 340-347 (build 2): direct parse only
getTimeBucket2(ts, minutes, zone) ==
    IF ts.shape = "empty" THEN sUnknown
    ELSE
      LET d == parseDirect(ts, zone)
      IN  IF ~d.valid THEN rawString(ts)
          ELSE toISOString(floorToWindow(d, minutes))

getTimeBucket(v, ts, minutes, zone) ==
    IF v = 1 THEN getTimeBucket1(ts, minutes, zone)
    ELSE getTimeBucket2(ts, minutes, zone)

\* lines 108-110 and 368-372; both arguments are already non-empty strings
makeGroupKey(username, startdatetime) ==
    trim(IF username = <<>> THEN sUnknown ELSE username) \o <<"_">>
    \o trim(IF startdatetime = <<>> THEN sUnknown ELSE startdatetime)


(***************************************************************************)
(* GET /api/bookings: the rows of the upstream answer, the filter, the     *)
(* grouping and the status of each group.  A row is                        *)
(* [username, userbarcode, assetname, startdatetime, currentstatus, hints] *)
(* with <<>> for a missing or empty field.                                 *)
(***************************************************************************)
sBookingRequest == <<"b","o","o","k","i","n","g"," ","r","e","q","u","e","s","t">>
sPicked == <<"p","i","c","k","e","d">>
sReady == <<"r","e","a","d","y">>
sCollected == <<"c","o","l","l","e","c","t","e","d">>
sComplete == <<"c","o","m","p","l","e","t","e">>
sCompleted == <<"c","o","m","p","l","e","t","e","d">>
sReturned == <<"r","e","t","u","r","n","e","d">>
sIssued == <<"i","s","s","u","e","d">>
sPreparing == <<"p","r","e","p","a","r","i","n","g">>
sNotpicked == <<"n","o","t","p","i","c","k","e","d">>
sNotPicked == <<"n","o","t"," ","p","i","c","k","e","d">>
sClear == <<"c","l","e","a","r">>

\* line 229
pickedKeywords1 == <<sPicked, sReady, sCollected, sComplete, sCompleted, sReturned, sIssued>>

\* line 456
pickedKeywords2 == <<sPicked, sReady, sIssued>>

pickedKeywords(v) == IF v = 1 THEN pickedKeywords1 ELSE pickedKeywords2

\* lines 230-235 and 457-465
autoStatus(statuses, keywords) ==
    LET pickedOrReady ==
            Cardinality({i \in 1..Len(statuses) :
                \E k \in 1..Len(keywords) : includes(statuses[i], keywords[k])})
        total == Len(statuses)
    IN  IF pickedOrReady = 0 THEN "Not Picked"
        ELSE IF pickedOrReady < total THEN "Preparing"
        ELSE "Ready for Collection"

\* the override only lowers a status, never lifts or replaces a complete one
layerOverrideUnlessComplete(status, techOverrides, key) ==
    IF Truthy(techOverrides, key) /\ status # "Ready for Collection"
    THEN LET o == toLowerCase(techOverrides[key])
         IN  IF o = sPreparing THEN "Preparing"
             ELSE IF o = sReady THEN "Ready for Collection"
             ELSE IF o = sNotpicked \/ o = sNotPicked THEN "Not Picked"
             ELSE status
    ELSE status

\* lines 238-243 and 468-473
layerOverride(status, techOverrides, key) ==
    IF Truthy(techOverrides, key)
    THEN LET o == toLowerCase(techOverrides[key])
         IN  IF o = sPreparing THEN "Preparing"
             ELSE IF o = sReady THEN "Ready for Collection"
             ELSE IF o = sNotpicked \/ o = sNotPicked THEN "Not Picked"
             ELSE status
    ELSE status

\* lines 207-211
keepRow1(r, day) ==
    /\ r.currentstatus # <<>>
    /\ ~includes(toLowerCase(r.currentstatus), sBookingRequest)
    /\ isSameDayStart(r.startdatetime, day)

\* lines 408-417
keepRow2(r) ==
    /\ ~includes(toLowerCase(r.currentstatus), sCollected)
    /\ ~includes(toLowerCase(r.currentstatus), sComplete)
    /\ r.currentstatus # <<>>
    /\ ~includes(toLowerCase(r.currentstatus), sBookingRequest)

RECURSIVE filterRows(_, _, _)
filterRows(v, rows, day) ==
    IF rows = <<>> THEN <<>>
    ELSE LET keep == IF v = 1 THEN keepRow1(rows[1], day) ELSE keepRow2(rows[1])
         IN  (IF keep THEN <<rows[1]>> ELSE <<>>) \o filterRows(v, Tail(rows), day)

\* lines 216 and 421
userOf(r) ==
    trim(IF r.username # <<>> THEN r.username
         ELSE IF r.userbarcode # <<>> THEN r.userbarcode
         ELSE sUnknown)

groupIndex(groups, key) ==
    IF \E i \in 1..Len(groups) : groups[i].key = key
    THEN CHOOSE i \in 1..Len(groups) : groups[i].key = key
    ELSE 0

\* lines 379-386 (build 2)
sLight == <<"l","i","g","h","t">>
sPanel == <<"p","a","n","e","l">>
sLed == <<"l","e","d">>
sAputure == <<"a","p","u","t","u","r","e">>
sSony == <<"s","o","n","y">>
sRig == <<"r","i","g">>

getCategory(assetName) ==
    LET lower == toLowerCase(assetName)
    IN  IF includes(lower, sMic) \/ includes(lower, sAudio) \/ includes(lower, sSound)
        THEN <<"S">> \o Tail(sSound)
        ELSE IF includes(lower, sCamera) \/ includes(lower, sLens)
                \/ includes(lower, sVideo) \/ includes(lower, sSony)
        THEN <<"V">> \o Tail(sVideo)
        ELSE IF includes(lower, sLight) \/ includes(lower, sPanel)
                \/ includes(lower, sLed) \/ includes(lower, sAputure)
        THEN <<"L">> \o Tail(sLighting)
        ELSE IF includes(lower, sGrip) \/ includes(lower, sStand)
                \/ includes(lower, sTripod) \/ includes(lower, sRig)
        THEN <<"G">> \o Tail(sGrip)
        ELSE <<"U">> \o Tail(sUncategorised)

\* lines 215-224 (build 1): one row added to the groups
addRow1(groups, r, overrides, zone) ==
    LET username == userOf(r)
        bucket   == getTimeBucket1(r.startdatetime, 5, zone)
        key      == makeGroupKey(username, bucket)
        cat      == decideCategory(r, r.assetname, overrides)
        i        == groupIndex(groups, key)
        asset    == [name |-> r.assetname, category |-> cat]
        status   == toLowerCase(r.currentstatus)
    IN  IF i = 0
        THEN Append(groups, [key |-> key, username |-> username, startdatetime |-> bucket,
                             assets |-> <<asset>>, statuses |-> <<status>>])
        ELSE [groups EXCEPT ![i].assets = Append(@, asset),
                            ![i].statuses = Append(@, status)]

\* lines 420-436 (build 2): the assets are names, categorised later
addRow2(groups, r, zone) ==
    LET username == userOf(r)
        bucket   == getTimeBucket2(r.startdatetime, 5, zone)
        key      == makeGroupKey(username, bucket)
        i        == groupIndex(groups, key)
        names    == IF r.assetname # <<>> THEN <<trim(r.assetname)>> ELSE <<>>
        status   == toLowerCase(r.currentstatus)
    IN  IF i = 0
        THEN Append(groups, [key |-> key, username |-> username, startdatetime |-> bucket,
                             assets |-> names, statuses |-> <<status>>])
        ELSE [groups EXCEPT ![i].assets = @ \o names,
                            ![i].statuses = Append(@, status)]

RECURSIVE groupRows(_, _, _, _, _)
groupRows(v, rows, groups, overrides, zone) ==
    IF rows = <<>> THEN groups
    ELSE groupRows(v, Tail(rows),
                   IF v = 1 THEN addRow1(groups, rows[1], overrides, zone)
                   ELSE addRow2(groups, rows[1], zone),
                   overrides, zone)

\* lines 441-453 (build 2): one entry per distinct name, "name (xN)" when N > 1,
\* at most five entries and then "..."
countOf(names, n) == Cardinality({i \in 1..Len(names) : names[i] = n})

RECURSIVE distinctNames(_, _)
distinctNames(names, seen) ==
    IF names = <<>> THEN <<>>
    ELSE IF names[1] \in seen THEN distinctNames(Tail(names), seen)
    ELSE <<names[1]>> \o distinctNames(Tail(names), seen \cup {names[1]})

assetList2(names) ==
    LET uniq == distinctNames(names, {})
        all  == [i \in 1..Len(uniq) |->
                    [name |-> IF countOf(names, uniq[i]) > 1
                              THEN uniq[i] \o <<" ", "(", "x">>
                                   \o <<DigitChars[countOf(names, uniq[i]) + 1]>> \o <<")">>
                              ELSE uniq[i],
                     category |-> getCategory(uniq[i])]]
    IN  IF Len(all) > 5
        THEN Append(SubSeq(all, 1, 5),
                    [name |-> <<".", ".", ".">>, category |-> <<"U">> \o Tail(sUncategorised)])
        ELSE all

\* lines 228-246 and 440-482: the entry of one group in the answer
bookingOf(v, g, techOverrides) ==
    LET key == makeGroupKey(g.username, g.startdatetime)
    IN  [username      |-> g.username,
         startdatetime |-> g.startdatetime,
         assets        |-> IF v = 1 THEN g.assets ELSE assetList2(g.assets),
         status        |-> layerOverride(autoStatus(g.statuses, pickedKeywords(v)),
                                         techOverrides, key),
         groupKey      |-> key]

bookingsOf(v, groups, techOverrides) ==
    [i \in 1..Len(groups) |-> bookingOf(v, groups[i], techOverrides)]


(***************************************************************************)
(* The inputs the requests are drawn from.                                 *)
(***************************************************************************)
sAlice == <<"A","l","i","c","e">>
sBob == <<"B","o","b">>
sA7 == <<"A","7">>
sA7loose == <<" ","a","7"," ">>
sLED == <<"L","E","D">>
sLightingHint == <<"L","i","g","h","t","i","n","g">>
sGripHint == <<"G","r","i","p">>
sIssuedUp == <<"I","s","s","u","e","d">>
sReturnedUp == <<"R","e","t","u","r","n","e","d">>
sReserved == <<"R","e","s","e","r","v","e","d">>
sBogus == <<"b","o","g","u","s">>
sFive == <<"5">>

\* the process starts at 2024-06-01T09:00:00Z
BaseEpochMin == daysFromCivil(2024, 6, 1) * 1440 + 9 * 60

TS(shape, y, m, d, hh, mi, ss, time) ==
    [shape |-> shape, y |-> y, m |-> m, d |-> d, hh |-> hh, mi |-> mi, ss |-> ss,
     time |-> time]

Hints(categoryname) ==
    [i \in 1..Len(HintFields) |-> IF HintFields[i] = "categoryname" THEN categoryname ELSE <<>>]

Row(username, assetname, start, status, categoryname) ==
    [username |-> username, userbarcode |-> <<>>, assetname |-> assetname,
     startdatetime |-> start, currentstatus |-> status, hints |-> Hints(categoryname)]

tsMorning == TS("dmy", 2024, 6, 1, 10, 2, 0, TRUE)

tsMorningYmd == TS("ymd", 2024, 6, 1, 10, 4, 30, TRUE)

rowA7 == Row(sAlice, sA7, tsMorning, sIssuedUp, sLightingHint)

rowLED == Row(sAlice, sLED, tsMorningYmd, sReserved, <<>>)

KeyAlice == makeGroupKey(sAlice, getTimeBucket1(tsMorning, 5, 60))

KeyBob == makeGroupKey(sBob, getTimeBucket1(tsMorning, 5, 60))

AssetNameInputs == {JStr(sA7), JUndef}

CategoryInputs == {JStr(sVideo), JStr(sBogus), JNum(sFive), JUndef}

KeyInputs == {JStr(KeyAlice), JUndef}

StatusInputs == {JStr(sReady), JStr(sClear), JStr(sBogus), JNum(sFive), JUndef}

ListNames == <<"grip", "video", "lighting", "sound">>

ListNameSet == {ListNames[i] : i \in 1..Len(ListNames)}

\* line 50
DEFAULT_LISTS == [k \in ListNameSet |-> <<>>]

\* bodies of POST /api/lists: the fields that are arrays
ListsInputs == { [k \in {"video"} |-> <<sA7>>],
                 [k \in {"lighting"} |-> <<sLED>>],
                 EmptyMap }

Tokens == { <<"j","w","t">> }

(***************************************************************************)
(* techAuth (lines 129-150): the Basic-Auth gate of build 1.               *)
(***************************************************************************)
\* the characters of the codes 32..126 (the grave accent is written U+0060)
AsciiChars == <<" ","!","\"","#","$","%","&","'","(",")","*","+",",","-",".","/","0",
    "1","2","3","4","5","6","7","8","9",":",";","<","=",">","?","@","A","B","C","D","E",
    "F","G","H","I","J","K","L","M","N","O","P","Q","R","S","T","U","V","W","X","Y","Z",
    "[","\\","]","^","_","U+0060","a","b","c","d","e","f","g","h","i","j","k","l","m","n",
    "o","p","q","r","s","t","u","v","w","x","y","z","{","|","}","~">>

\* the base64 alphabet, in the order of the values 0..63
Base64Chars == <<"A","B","C","D","E","F","G","H","I","J","K","L","M","N","O","P","Q",
    "R","S","T","U","V","W","X","Y","Z","a","b","c","d","e","f","g","h","i","j","k","l",
    "m","n","o","p","q","r","s","t","u","v","w","x","y","z","0","1","2","3","4","5","6",
    "7","8","9","+","/">>

\* Buffer#toString() of one byte; a byte that is no printable ASCII character
\* is kept apart from all of them
charOfByte(b) == IF b \in 32..126 THEN AsciiChars[b - 31] ELSE "U+FFFD"

\* the value of a base64 character; '-' and '_' of the URL-safe alphabet are taken too
base64Value(c) ==
    CASE c = "-" -> 62
      [] c = "_" -> 63
      [] OTHER -> (CHOOSE i \in 1..64 : Base64Chars[i] = c) - 1

IsBase64Char(c) == c \in {"-", "_"} \/ \E i \in 1..64 : Base64Chars[i] = c

\* the base64 characters of s up to the padding; other characters are passed over
RECURSIVE base64Digits(_)
base64Digits(s) ==
    IF s = <<>> \/ s[1] = "=" THEN <<>>
    ELSE IF IsBase64Char(s[1]) THEN <<base64Value(s[1])>> \o base64Digits(Tail(s))
    ELSE base64Digits(Tail(s))

\* four 6-bit values give three bytes; a rest of three gives two, of two gives one
RECURSIVE base64Bytes(_)
base64Bytes(d) ==
    IF Len(d) < 2 THEN <<>>
    ELSE IF Len(d) = 2 THEN <<d[1] * 4 + d[2] \div 16>>
    ELSE IF Len(d) = 3 THEN <<d[1] * 4 + d[2] \div 16, (d[2] % 16) * 16 + d[3] \div 4>>
    ELSE <<d[1] * 4 + d[2] \div 16, (d[2] % 16) * 16 + d[3] \div 4, (d[3] % 4) * 64 + d[4]>>
         \o base64Bytes(SubSeq(d, 5, Len(d)))

\* line 137: Buffer.from(text, 'base64').toString()
base64Decode(s) ==
    LET bytes == base64Bytes(base64Digits(s))
    IN  [i \in 1..Len(bytes) |-> charOfByte(bytes[i])]

startsWith(s, prefix) == Len(s) >= Len(prefix) /\ SubSeq(s, 1, Len(prefix)) = prefix

\* String#split with a one-character separator
RECURSIVE split(_, _)
split(s, sep) ==
    IF \A i \in 1..Len(s) : s[i] # sep THEN <<s>>
    ELSE LET i == SetMin({j \in 1..Len(s) : s[j] = sep})
         IN  <<SubSeq(s, 1, i - 1)>> \o split(SubSeq(s, i + 1, Len(s)), sep)

sBasic == <<"B","a","s","i","c"," ">>

\* line 19: the default of TECH_PASSWORD
TECH_PASSWORD == <<"t","e","c","h","1","2","3">>

\* lines 130-140: the password a header carries; <<>> for a header that is not Basic
passOf(authorization) ==
    LET hdr == IF Falsy(authorization) THEN <<>> ELSE authorization.s
    IN  IF ~startsWith(hdr, sBasic) THEN <<>>
        ELSE join(Tail(split(base64Decode(split(hdr, " ")[2]), ":")), <<":">>)

\* lines 129-150: next() is called; otherwise the answer is 401
techAuth(authorization) ==
    LET hdr == IF Falsy(authorization) THEN <<>> ELSE authorization.s
    IN  startsWith(hdr, sBasic) /\ passOf(authorization) = TECH_PASSWORD

\* the Authorization headers of the requests, each with the password the
\* client holds (JUndef: none)
hdrGood == <<"B","a","s","i","c"," ","d","G","V","j","a","D","p","0","Z","W","N","o",
    "M","T","I","z">>

hdrWrong == <<"B","a","s","i","c"," ","d","G","V","j","a","D","p","3","c","m","9","u",
    "Z","w","=","=">>

hdrSecretAsUser == <<"B","a","s","i","c"," ","d","G","V","j","a","D","E","y","M","z",
    "o","=">>

sWrong == <<"w","r","o","n","g">>

Technician == [authorization |-> JStr(hdrGood), password |-> JStr(TECH_PASSWORD)]

AuthInputs ==
    { Technician,
      [authorization |-> JStr(hdrWrong), password |-> JStr(sWrong)],
      [authorization |-> JStr(hdrSecretAsUser), password |-> JStr(<<>>)],
      [authorization |-> JUndef, password |-> JUndef] }

(***************************************************************************)
(* Requests.  req[s] is                                                    *)
(*   pc    idle, jwt, fetch, read, create, write, done                     *)
(*   op    the route                                                       *)
(*   file  the file the next read, create or write is on                   *)
(*   arg1, arg2  the fields of the body                                    *)
(*   jwt   what getJwt returned                                            *)
(*   local the handler's local variables                                   *)
(*   resp  the answer: [kind, code, payload]; kind "unhandled" is a        *)
(*         rejection that leaves the async handler: the handler never      *)
(*         answers (Express 4 leaves the request open, Express 5 sends its *)
(*         own error page)                                                 *)
(*   cred  history: the password the client sent the request with          *)
(*   since history: how many overrides had been acknowledged when the      *)
(*         request came in                                                 *)
(*   t0    history: Date.now() when the request came in                    *)
(*   fell  history: a read of this request failed and gave the fallback    *)
(*   stale history: the file has been rewritten by another request since   *)
(*         this one read it (or found it missing)                          *)
(***************************************************************************)
NoResp == [kind |-> "none", code |-> 0, payload |-> <<>>]

Idle ==
    [pc |-> "idle", op |-> "none", file |-> "none", arg1 |-> JUndef, arg2 |-> JUndef,
     jwt |-> <<>>, local |-> <<>>, resp |-> NoResp, cred |-> JUndef, since |-> 0,
     t0 |-> 0, fell |-> FALSE, stale |-> FALSE]

Success(payload) == [kind |-> "success", code |-> 200, payload |-> payload]

Failure(code) == [kind |-> "failure", code |-> code, payload |-> <<>>]

Unhandled == [kind |-> "unhandled", code |-> 0, payload |-> <<>>]

\* the answer is sent; the handler's locals are gone
Done(r, resp) ==
    [r EXCEPT !.pc = "done", !.resp = resp, !.file = "none", !.jwt = <<>>,
              !.local = <<>>, !.fell = FALSE, !.stale = FALSE]

\* the handlers with a try/catch answer 500 (lines 249-252, 268-271, 485-488,
\* 507-510); the others let the rejection go
Throw(r) ==
    IF r.op \in {"bookings", "postStatus"} THEN Done(r, Failure(500))
    ELSE Done(r, Unhandled)

FileOf(f) ==
    CASE f = "lists" -> listsFile
      [] f = "cat" -> catFile
      [] OTHER -> statusFile

SetFile(f, content) ==
    /\ listsFile' = IF f = "lists" THEN content ELSE listsFile
    /\ catFile' = IF f = "cat" THEN content ELSE catFile
    /\ statusFile' = IF f = "status" THEN content ELSE statusFile

\* the fallback readJson is called with (lines 46-51)
Fallback(f) == IF f = "lists" THEN defaultLists ELSE EmptyMap

AllowedCategories == {sVideo, sSound, sLighting, sGrip, sUncategorised}

AllowedStatuses == {sPreparing, sReady, sNotpicked, sNotPicked, sClear}

\* lines 175-177
mergeLists(lists, incoming) ==
    [k \in (DOMAIN lists) \cup ((DOMAIN incoming) \cap ListNameSet) |->
        IF k \in ListNameSet /\ k \in DOMAIN incoming THEN incoming[k] ELSE lists[k]]

\* the entry is put into a new map instead of the map that was read
setCategoryAlone(map, assetName, category) ==
    Put(EmptyMap, norm(assetName.s), toLowerCase(category.s))

\* lines 187, 264-265, 502-503: the mutation of the map that was read
setCategory(map, assetName, category) ==
    Put(map, norm(assetName.s), toLowerCase(category.s))

\* 'clear' stored like any other value
setStatusStoresClear(statuses, key, status) ==
    Put(statuses, key.s, toLowerCase(status.s))

setStatus(statuses, key, status) ==
    IF toLowerCase(status.s) = sClear THEN Del(statuses, key.s)
    ELSE Put(statuses, key.s, toLowerCase(status.s))

\* what the handler does with the object its read returned
AfterRead(r, data) ==
    CASE r.op = "getLists" -> Done(r, Success(data))
      [] r.op = "postLists" ->
            [r EXCEPT !.pc = "write", !.local = mergeLists(data, r.arg1)]
      [] r.op = "postCat" ->
            [r EXCEPT !.pc = "write", !.local = setCategory(data, r.arg1, r.arg2)]
      [] r.op = "getCat" -> Done(r, Success(data))
      [] r.op = "bookings" /\ r.file = "cat" ->
            [r EXCEPT !.pc = "read", !.file = "status",
                      !.local = [rows |-> r.local.rows, overrides |-> data,
                                 groups |-> groupRows(1, r.local.rows, <<>>, data, tz)]]
      [] r.op = "bookings" /\ r.file = "status" ->
            Done(r, Success(bookingsOf(variant, r.local.groups, data)))
      [] r.op = "postStatus" ->
            [r EXCEPT !.pc = "write", !.local = setStatus(data, r.arg1, r.arg2)]
      [] OTHER -> Done(r, Success(data))

\* lines 189, 179, 267, 506: the answer after the write
AfterWrite(r) ==
    LET payload == IF r.op = "postStatus"
                   THEN (IF Truthy(r.local, r.arg1.s) THEN r.local[r.arg1.s] ELSE <<>>)
                   ELSE r.local
    IN  [Done(r, Success(payload)) EXCEPT !.fell = r.fell, !.stale = r.stale]

\* the token counts as good up to its expiry
jwtFreshNoMargin(cached, expiry, t) == cached # <<>> /\ t < expiry

\* line 58 and 313: the cached token is still good
jwtFresh(cached, expiry, t) == cached # <<>> /\ t < expiry - 3000


(***************************************************************************)
(* The state after the process has started.  Each slot serves one request. *)
(***************************************************************************)
\* history of the acknowledged overrides: n answers so far; per key the value of
\* the last one and its number; wrote: the keys whose last one reached the file
NoAcks == [n |-> 0, cat |-> EmptyMap, status |-> EmptyMap, at |-> EmptyMap, wrote |-> {}]

InitWith(v) ==
    /\ variant = v
    /\ listsFile = NoFile
    /\ catFile = NoFile
    /\ statusFile = NoFile
    /\ tz = 60
    /\ now = 0
    /\ defaultLists = DEFAULT_LISTS
    /\ cachedJwt = <<>>
    /\ jwtExpiry = 0
    /\ req = [s \in Slots |-> Idle]
    /\ acked = NoAcks
    /\ probe = <<>>

Init == \E v \in {1, 2} : InitWith(v)

Files == <<listsFile, catFile, statusFile>>

Cache == <<cachedJwt, jwtExpiry>>

Env == <<variant, tz, probe>>

\* the next request comes in on the first free slot
Free(s) == req[s].pc = "idle" /\ \A t \in 1..(s - 1) : req[t].pc # "idle"

Fresh(op) == [Idle EXCEPT !.op = op, !.since = acked.n, !.t0 = now]

(***************************************************************************)
(* The routes: what each handler does up to its first await.               *)
(***************************************************************************)
\* GET /api/lists, lines 166-169
GetLists(s) ==
    /\ variant = 1
    /\ Free(s)
    /\ req' = [req EXCEPT ![s] = [Fresh("getLists") EXCEPT !.pc = "read", !.file = "lists"]]
    /\ UNCHANGED <<Files, Cache, Env, now, defaultLists, acked>>

\* POST /api/lists, lines 172-174, behind techAuth
PostLists(s, auths, bodies) ==
    /\ variant = 1
    /\ Free(s)
    /\ \E a \in auths, incoming \in bodies :
          LET r == [Fresh("postLists") EXCEPT !.cred = a.password, !.arg1 = incoming]
          IN  req' = [req EXCEPT ![s] =
                 IF ~techAuth(a.authorization) THEN Done(r, Failure(401))
                 ELSE [r EXCEPT !.pc = "read", !.file = "lists"]]
    /\ UNCHANGED <<Files, Cache, Env, now, defaultLists, acked>>

\* POST /api/category-override, lines 181-186, behind techAuth
PostCategoryOverride(s, auths, bodies) ==
    /\ variant = 1
    /\ Free(s)
    /\ \E a \in auths, body \in bodies :
          LET assetName == body[1]
              category  == body[2]
              r == [Fresh("postCat") EXCEPT !.cred = a.password, !.arg1 = assetName,
                                            !.arg2 = category]
          IN  req' = [req EXCEPT ![s] =
                 IF ~techAuth(a.authorization) THEN Done(r, Failure(401))
                 ELSE IF Falsy(assetName) THEN Done(r, Failure(400))
                 ELSE IF Falsy(category) THEN Done(r, Failure(400))
                 ELSE IF ~HasToLowerCase(category) THEN Throw(r)
                 ELSE IF toLowerCase(category.s) \notin AllowedCategories
                      THEN Done(r, Failure(400))
                 ELSE [r EXCEPT !.pc = "read", !.file = "cat"]]
    /\ UNCHANGED <<Files, Cache, Env, now, defaultLists, acked>>

\* GET /api/category-override, lines 191-193, behind techAuth
GetCategoryOverride(s, auths) ==
    /\ variant = 1
    /\ Free(s)
    /\ \E a \in auths :
          LET r == [Fresh("getCat") EXCEPT !.cred = a.password]
          IN  req' = [req EXCEPT ![s] =
                 IF ~techAuth(a.authorization) THEN Done(r, Failure(401))
                 ELSE [r EXCEPT !.pc = "read", !.file = "cat"]]
    /\ UNCHANGED <<Files, Cache, Env, now, defaultLists, acked>>

\* GET /api/overrides, lines 513-516
GetOverrides(s) ==
    /\ variant = 2
    /\ Free(s)
    /\ req' = [req EXCEPT ![s] = [Fresh("getOverrides") EXCEPT !.pc = "read",
                                                               !.file = "status"]]
    /\ UNCHANGED <<Files, Cache, Env, now, defaultLists, acked>>

\* POST /api/update-status: lines 256-263 in build 1, behind techAuth; lines
\* 491-501 in build 2, where no middleware looks at the Authorization header
PostUpdateStatus(s, auths, bodies) ==
    /\ Free(s)
    /\ \E a \in auths, body \in bodies :
          LET key    == body[1]
              status == body[2]
              r == [Fresh("postStatus") EXCEPT !.cred = a.password, !.arg1 = key,
                                               !.arg2 = status]
          IN  req' = [req EXCEPT ![s] =
                 IF variant = 1
                 THEN IF ~techAuth(a.authorization) THEN Done(r, Failure(401))
                      ELSE IF Falsy(key) \/ toLowerCase(status.s) \notin AllowedStatuses
                      THEN Done(r, Failure(400))
                      ELSE [r EXCEPT !.pc = "read", !.file = "status"]
                 ELSE IF Falsy(key) \/ Falsy(status) THEN Done(r, Failure(400))
                      ELSE IF ~HasToLowerCase(status) THEN Throw(r)
                      ELSE IF toLowerCase(status.s) \notin AllowedStatuses
                           THEN Done(r, Failure(400))
                      ELSE [r EXCEPT !.pc = "read", !.file = "status"]]
    /\ UNCHANGED <<Files, Cache, Env, now, defaultLists, acked>>

\* GET /api/bookings up to getJwt's await: lines 196-199 and 56-59 (388-391, 311-316)
GetBookings(s) ==
    /\ Free(s)
    /\ req' = [req EXCEPT ![s] =
          IF jwtFresh(cachedJwt, jwtExpiry, now)
          THEN [Fresh("bookings") EXCEPT !.pc = "fetch", !.jwt = cachedJwt]
          ELSE [Fresh("bookings") EXCEPT !.pc = "jwt"]]
    /\ UNCHANGED <<Files, Cache, Env, now, defaultLists, acked>>

(***************************************************************************)
(* The completions of the awaited calls.                                   *)
(***************************************************************************)
\* jwt_request answers: lines 63-65 and 326-330
JwtRequestDone(s) ==
    /\ req[s].pc = "jwt"
    /\ \/ \E token \in Tokens :
            /\ cachedJwt' = token
            /\ jwtExpiry' = now + 55 * 1000
            /\ req' = [req EXCEPT ![s].pc = "fetch", ![s].jwt = token]
       \/ \* no token in the answer (line 64), or the request failed
          /\ req' = [req EXCEPT ![s] = Throw(req[s])]
          /\ UNCHANGED Cache
    /\ UNCHANGED <<Files, Env, now, defaultLists, acked>>

\* listbookings answers: lines 200-211 and 394-438
ListBookingsDone(s, answers) ==
    /\ req[s].pc = "fetch"
    /\ \/ \E rows \in answers :
            LET kept == filterRows(variant, rows, localDay(BaseEpochMin + now \div 60000, tz))
            IN  req' = [req EXCEPT ![s] =
                   IF variant = 1
                   THEN [@ EXCEPT !.pc = "read", !.file = "cat",
                                  !.local = [rows |-> kept, overrides |-> EmptyMap,
                                             groups |-> <<>>]]
                   ELSE [@ EXCEPT !.pc = "read", !.file = "status",
                                  !.local = [rows |-> kept, overrides |-> EmptyMap,
                                             groups |-> groupRows(2, kept, <<>>, EmptyMap, tz)]]]
       \/ req' = [req EXCEPT ![s] = Throw(req[s])]
    /\ UNCHANGED <<Files, Cache, Env, now, defaultLists, acked>>

\* fs.readFile answers with the file's text (lines 33-34, 351-352)
ReadFileDone(s) ==
    /\ req[s].pc = "read"
    /\ FileOf(req[s].file).exists
    /\ req' = [req EXCEPT ![s] = AfterRead(req[s], FileOf(req[s].file).data)]
    /\ UNCHANGED <<Files, Cache, Env, now, defaultLists, acked>>

\* fs.readFile fails with ENOENT: build 1 goes on to write the fallback (line 37),
\* build 2 returns {} (line 354)
ReadFileMissing(s) ==
    /\ req[s].pc = "read"
    /\ ~FileOf(req[s].file).exists
    /\ req' = [req EXCEPT ![s] =
          IF variant = 1 THEN [@ EXCEPT !.pc = "create"] ELSE AfterRead(@, EmptyMap)]
    /\ UNCHANGED <<Files, Cache, Env, now, defaultLists, acked>>

\* fs.readFile or JSON.parse fails otherwise: the fallback itself is returned
\* (lines 40, 355-356); POST /api/lists then writes into DEFAULT_LISTS
ReadFileError(s) ==
    /\ req[s].pc = "read"
    /\ req' = [req EXCEPT ![s] =
          AfterRead([req[s] EXCEPT !.fell = TRUE], Fallback(req[s].file))]
    /\ defaultLists' = IF req[s].op = "postLists"
                       THEN mergeLists(defaultLists, req[s].arg1)
                       ELSE defaultLists
    /\ UNCHANGED <<Files, Cache, Env, now, acked>>

\* history: slot s puts `content` into file f; what the other requests have read
\* of f is out of date when that changes the file
Outdate(s, f, content, r) ==
    [t \in Slots |->
        IF t = s THEN r
        ELSE IF req[t].file = f /\ req[t].pc \in {"write", "create"} /\ FileOf(f) # content
             THEN [req[t] EXCEPT !.stale = TRUE]
        ELSE req[t]]

\* the fs.writeFile of line 37 answers
CreateFileDone(s) ==
    /\ req[s].pc = "create"
    /\ LET f == req[s].file
       IN  \/ /\ SetFile(f, File(Fallback(f)))
              /\ req' = Outdate(s, f, File(Fallback(f)), AfterRead(req[s], Fallback(f)))
              /\ defaultLists' = IF req[s].op = "postLists"
                                 THEN mergeLists(defaultLists, req[s].arg1)
                                 ELSE defaultLists
           \/ /\ req' = [req EXCEPT ![s] = Throw(req[s])]
              /\ UNCHANGED <<Files, defaultLists>>
    /\ UNCHANGED <<Cache, Env, now, acked>>

\* history: the override the answer acknowledges
Ack(r, written) ==
    CASE r.op = "postCat" ->
            LET k == norm(r.arg1.s)
            IN  [acked EXCEPT !.n = @ + 1,
                              !.cat = Put(@, k, toLowerCase(r.arg2.s)),
                              !.at = Put(@, k, acked.n + 1),
                              !.wrote = IF written THEN @ \cup {k} ELSE @ \ {k}]
      [] r.op = "postStatus" ->
            LET k == r.arg1.s
            IN  [acked EXCEPT !.n = @ + 1,
                              !.status = Put(@, k, toLowerCase(r.arg2.s)),
                              !.at = Put(@, k, acked.n + 1),
                              !.wrote = IF written THEN @ \cup {k} ELSE @ \ {k}]
      [] OTHER -> acked

\* the fs.writeFile of writeJson (line 44) or writeStatuses (line 362) answers
WriteFileDone(s) ==
    /\ req[s].pc = "write"
    /\ SetFile(req[s].file, File(req[s].local))
    /\ req' = Outdate(s, req[s].file, File(req[s].local), AfterWrite(req[s]))
    /\ acked' = Ack(req[s], TRUE)
    /\ UNCHANGED <<Cache, Env, now, defaultLists>>

\* it fails: build 1 lets the error go, build 2 logs it and answers as if written
\* (lines 363-365)
WriteFileError(s) ==
    /\ req[s].pc = "write"
    /\ req' = [req EXCEPT ![s] = IF variant = 2 THEN AfterWrite(@) ELSE Throw(@)]
    /\ acked' = IF variant = 2 THEN Ack(req[s], FALSE) ELSE acked
    /\ UNCHANGED <<Files, Cache, Env, now, defaultLists>>

\* time passes
Tick(steps, limit) ==
    /\ \E d \in steps : now + d <= limit /\ now' = now + d
    /\ UNCHANGED <<Files, Cache, Env, defaultLists, req, acked>>

(***************************************************************************)
(* The specifications.                                                     *)
(***************************************************************************)
Completions(s) ==
    \/ JwtRequestDone(s)
    \/ ReadFileDone(s)
    \/ ReadFileMissing(s)
    \/ ReadFileError(s)
    \/ CreateFileDone(s)
    \/ WriteFileDone(s)
    \/ WriteFileError(s)

\* the whole interface, one valid body per route
Next ==
    \E s \in Slots :
        \/ GetLists(s)
        \/ PostLists(s, {Technician}, ListsInputs)
        \/ PostCategoryOverride(s, {Technician}, {<<JStr(sA7), JStr(sVideo)>>})
        \/ GetCategoryOverride(s, {Technician})
        \/ GetOverrides(s)
        \/ PostUpdateStatus(s, {Technician}, {<<JStr(KeyAlice), JStr(sReady)>>})
        \/ GetBookings(s)
        \/ ListBookingsDone(s, {<<rowA7>>})
        \/ Completions(s)

Spec == Init /\ [][Next]_vars

\* category overrides and the listing, build 1, valid bodies
CategoryBodies ==
    { <<JStr(sA7), JStr(sVideo)>>, <<JStr(sA7loose), JStr(sGripHint)>>,
      <<JStr(sLED), JStr(sGripHint)>> }

NextCategory ==
    \E s \in Slots :
        \/ PostCategoryOverride(s, {Technician}, CategoryBodies)
        \/ GetBookings(s)
        \/ ListBookingsDone(s, {<<rowA7, rowLED>>})
        \/ Completions(s)

\* statuses.json exists already (a status has been set and cleared before)
InitCategory ==
    \E x \in {1} :
        /\ variant = x
        /\ listsFile = NoFile
        /\ catFile = NoFile
        /\ statusFile = File(EmptyMap)
        /\ tz = 60
        /\ now = 0
        /\ defaultLists = DEFAULT_LISTS
        /\ cachedJwt = <<>>
        /\ jwtExpiry = 0
        /\ req = [s \in Slots |-> Idle]
        /\ acked = NoAcks
        /\ probe = <<>>

SpecCategory == InitCategory /\ [][NextCategory]_vars

(***************************************************************************)
(* Category overrides.                                                     *)
(***************************************************************************)
\* slot s resolves the categories of its rows in this step (lines 213-224)
ResolvesCategories(s) ==
    /\ req[s].op = "bookings" /\ req[s].file = "cat"
    /\ req'[s].pc = "read" /\ req'[s].file = "status"

\* the resolution works on the map that categories.json holds
ReadsPersistedMap(s) ==
    catFile.exists /\ req'[s].local.overrides = catFile.data

\* the assets of a listing's groups
AssetsOf(groups) ==
    {groups[i].assets[j] : <<i, j>> \in
        {p \in (1..Len(groups)) \X (1..2) : p[2] <= Len(groups[p[1]].assets)}}

\* categories.json holds the acknowledged override of key k
HoldsCategory(k) ==
    /\ catFile.exists
    /\ k \in DOMAIN catFile.data
    /\ k \in DOMAIN acked.cat
    /\ catFile.data[k] = acked.cat[k]

\* slot s takes a step
Steps(s) == req'[s] # req[s]

\* C1 as claimed: once a set-category-override for X with C has been acknowledged,
\* every category resolution of a request that comes in later (and reads
\* categories.json) gives C to the rows whose asset name normalizes to X's key.
C1_AsClaimed ==
    [][\A s \in Slots :
          (ResolvesCategories(s) /\ ReadsPersistedMap(s)) =>
             \A a \in AssetsOf(req'[s].local.groups) :
                LET k == norm(a.name)
                IN  (k \in DOMAIN acked.cat /\ acked.at[k] <= req[s].since)
                       => a.category = acked.cat[k]]_vars

\* C1 as amended: (a) the answer of a set-category-override leaves its entry in
\* categories.json; (b) a resolution that reads a map holding the acknowledged
\* entry of a row's key gives the row that category, whatever its hints; (c) the
\* entry leaves the file only by the write of a request that had read the file
\* (or found it missing) before another request rewrote it, or of one whose own
\* read of the file failed.
C1_OverrideWins ==
    [][/\ \A k \in DOMAIN acked'.cat :
             (k \notin DOMAIN acked.cat \/ acked'.at[k] # acked.at[k]) => HoldsCategory(k)'
       /\ \A s \in Slots :
             (ResolvesCategories(s) /\ ReadsPersistedMap(s)) =>
                \A a \in AssetsOf(req'[s].local.groups) :
                   HoldsCategory(norm(a.name)) => a.category = acked.cat[norm(a.name)]
       /\ \A k \in DOMAIN acked.cat :
             (HoldsCategory(k) /\ ~HoldsCategory(k)') =>
                \E s \in Slots :
                   /\ Steps(s) /\ req[s].pc \in {"write", "create"}
                   /\ req[s].stale \/ req[s].fell]_vars

\* a listing gave "A7" (hint: Lighting) the category set for " a7 "
C1_Witness ==
    \E s \in Slots :
        /\ req[s].op = "bookings" /\ req[s].pc = "read" /\ req[s].file = "status"
        /\ norm(sA7) \in DOMAIN acked.cat /\ acked.cat[norm(sA7)] = sGrip
        /\ acked.at[norm(sA7)] <= req[s].since
        /\ \E a \in AssetsOf(req[s].local.groups) : a.name = sA7 /\ a.category = sGrip

(***************************************************************************)
(* One listing on given files: the rows of the upstream answer are in      *)
(* probe, the listing of GET /api/bookings is computed from them and from  *)
(* the maps the files hold.                                                *)
(***************************************************************************)
MaxRows == 3

sReadyUp == <<"R","e","a","d","y">>

SubStatuses == {sIssuedUp, sReturnedUp, sReserved, sReadyUp}

\* the rows of one booking of Alice: one row per sub-status
RowsOf(statuses) ==
    [i \in 1..Len(statuses) |-> Row(sAlice, sA7, tsMorning, statuses[i], sLightingHint)]

ListingRows == {RowsOf(q) : q \in UNION {[1..n -> SubStatuses] : n \in 1..MaxRows}}

\* the key the listing gives Alice's booking
ListingKey(v) == makeGroupKey(sAlice, getTimeBucket(v, tsMorning, 5, 60))

\* what POST /api/update-status can have left in statuses.json for that key
StoredStatuses == {sPreparing, sReady, sNotpicked, sNotPicked}

CuratedLists == {DEFAULT_LISTS, [DEFAULT_LISTS EXCEPT !["video"] = <<sA7>>]}

NoListing == [rows |-> <<>>, groups |-> <<>>, bookings |-> <<>>, listed |-> FALSE]

InitListing ==
    \E v \in {1, 2}, rows \in ListingRows, lists \in CuratedLists :
        /\ variant = v
        /\ listsFile = File(lists)
        /\ catFile = File(EmptyMap)
        /\ statusFile \in {File(EmptyMap)}
                \cup {File(Put(EmptyMap, ListingKey(v), o)) : o \in StoredStatuses}
        /\ tz = 60
        /\ now = 0
        /\ defaultLists = DEFAULT_LISTS
        /\ cachedJwt = <<>>
        /\ jwtExpiry = 0
        /\ req = [s \in Slots |-> Idle]
        /\ acked = NoAcks
        /\ probe = [NoListing EXCEPT !.rows = rows]

\* lines 206-246 and 400-482 with every read succeeding
ListGroups ==
    /\ ~probe.listed
    /\ LET kept   == filterRows(variant, probe.rows,
                                localDay(BaseEpochMin + now \div 60000, tz))
           groups == groupRows(variant, kept, <<>>, catFile.data, tz)
       IN  probe' = [probe EXCEPT !.groups = groups, !.listed = TRUE,
                        !.bookings = bookingsOf(variant, groups, statusFile.data)]
    /\ UNCHANGED <<Files, Cache, variant, tz, now, defaultLists, req, acked>>

SpecListing == InitListing /\ [][ListGroups]_vars

(***************************************************************************)
(* Status overrides in the listing.                                        *)
(***************************************************************************)
\* the status a stored manual value stands for
ManualStatus(o) ==
    CASE o = sPreparing -> "Preparing"
      [] o = sReady -> "Ready for Collection"
      [] OTHER -> "Not Picked"

\* C2: in the listing, every group whose key has an entry in the status override
\* map is reported with the status that entry stands for (preparing -> Preparing,
\* ready -> Ready for Collection, notpicked / not picked -> Not Picked), whatever
\* its sub-statuses are.
C2_ManualStatusReplaces ==
    probe.listed =>
        \A i \in 1..Len(probe.bookings) :
            LET b == probe.bookings[i]
            IN  b.groupKey \in DOMAIN statusFile.data
                   => b.status = ManualStatus(statusFile.data[b.groupKey])

\* a group whose rows are all issued is listed as Not Picked by its override
C2_Witness ==
    /\ probe.listed
    /\ \E i \in 1..Len(probe.bookings) :
          /\ probe.bookings[i].groupKey \in DOMAIN statusFile.data
          /\ statusFile.data[probe.bookings[i].groupKey] = sNotPicked
          /\ Len(probe.groups[i].statuses) = 2
          /\ \A j \in 1..2 : probe.groups[i].statuses[j] = toLowerCase(sIssuedUp)
          /\ probe.bookings[i].status = "Not Picked"

(***************************************************************************)
(* Status overrides and the listing, both builds, valid bodies.            *)
(***************************************************************************)
sNotPickedUp == <<"N","o","t","P","i","c","k","e","d">>

StatusBodies(v) ==
    { <<JStr(ListingKey(v)), JStr(sNotPickedUp)>>, <<JStr(ListingKey(v)), JStr(sClear)>>,
      <<JStr(KeyBob), JStr(sReady)>> }

NextStatus ==
    \E s \in Slots :
        \/ PostUpdateStatus(s, {Technician}, StatusBodies(variant))
        \/ GetBookings(s)
        \/ ListBookingsDone(s, {<<rowA7>>})
        \/ Completions(s)

\* categories.json exists already
InitStatus ==
    \E v \in {1, 2} :
        /\ variant = v
        /\ listsFile = NoFile
        /\ catFile = File(EmptyMap)
        /\ statusFile = NoFile
        /\ tz = 60
        /\ now = 0
        /\ defaultLists = DEFAULT_LISTS
        /\ cachedJwt = <<>>
        /\ jwtExpiry = 0
        /\ req = [s \in Slots |-> Idle]
        /\ acked = NoAcks
        /\ probe = <<>>

SpecStatus == InitStatus /\ [][NextStatus]_vars

\* slot s answers its listing in this step with the map `data` (lines 226-246)
AnswersListing(s) ==
    /\ req[s].op = "bookings" /\ req[s].pc = "read" /\ req[s].file = "status"
    /\ req'[s].pc = "done" /\ req'[s].resp.kind = "success"

\* the last status update on key k was a clear, acknowledged and written
Cleared(k) ==
    /\ k \in DOMAIN acked.status /\ acked.status[k] = sClear /\ k \in acked.wrote
    /\ statusFile.exists /\ k \notin DOMAIN statusFile.data

\* the status the automatic rule of the build gives the group
AutomaticStatus(g) == autoStatus(g.statuses, pickedKeywords(variant))

\* C3 as claimed: once a status update 'clear' for key K has been acknowledged,
\* every listing of a request that comes in later reports the group with key K
\* with the status the automatic rule gives its sub-statuses.
C3_AsClaimed ==
    [][\A s \in Slots :
          AnswersListing(s) =>
             \A i \in 1..Len(req'[s].resp.payload) :
                LET b == req'[s].resp.payload[i]
                    k == b.groupKey
                IN  (k \in DOMAIN acked.status /\ acked.status[k] = sClear
                     /\ acked.at[k] <= req[s].since)
                       => b.status = AutomaticStatus(req[s].local.groups[i])]_vars

\* C3 as amended: (a) a 'clear' for K that is acknowledged and whose write
\* succeeded leaves statuses.json without an entry for K; (b) a listing that reads
\* a map without an entry for K reports the group with key K with exactly the
\* automatic status; (c) after such a clear, an entry for K comes back only by a
\* status update for K itself or by the write of a request that had read the
\* file before another request rewrote it.
C3_ClearIsExact ==
    [][/\ \A k \in DOMAIN acked'.status :
             (/\ k \notin DOMAIN acked.at \/ acked'.at[k] # acked.at[k]
              /\ acked'.status[k] = sClear /\ k \in acked'.wrote) => Cleared(k)'
       /\ \A s \in Slots :
             (AnswersListing(s) /\ statusFile.exists) =>
                \A i \in 1..Len(req'[s].resp.payload) :
                   LET b == req'[s].resp.payload[i]
                   IN  (b.groupKey \notin DOMAIN statusFile.data \/ Cleared(b.groupKey))
                          => b.status = AutomaticStatus(req[s].local.groups[i])
       /\ \A k \in DOMAIN acked.status :
             (Cleared(k) /\ statusFile'.exists /\ k \in DOMAIN statusFile'.data) =>
                \E s \in Slots :
                   /\ Steps(s) /\ req[s].pc = "write"
                   /\ req[s].stale \/ req[s].arg1.s = k]_vars

\* an override of Alice's booking was set, then cleared, and a listing that came
\* in after the clear reported the automatic status
C3_Witness ==
    \E s, t \in Slots :
        /\ req[t].op = "postStatus" /\ req[t].pc = "done" /\ req[t].resp.kind = "success"
        /\ req[t].arg1.s = ListingKey(variant) /\ req[t].arg2.s = sNotPickedUp
        /\ Cleared(ListingKey(variant))
        /\ req[s].op = "bookings" /\ req[s].pc = "done" /\ req[s].resp.kind = "success"
        /\ acked.at[ListingKey(variant)] <= req[s].since
        /\ \E i \in 1..Len(req[s].resp.payload) :
              /\ req[s].resp.payload[i].groupKey = ListingKey(variant)
              /\ req[s].resp.payload[i].status = "Ready for Collection"

(***************************************************************************)
(* The automatic status.                                                   *)
(***************************************************************************)
FulfilledKeywords ==
    {sPicked, sReady, sCollected, sComplete, sCompleted, sReturned, sIssued}

\* the sub-statuses of a group that contain a fulfilled keyword, in any case
Fulfilled(statuses) ==
    Cardinality({j \in 1..Len(statuses) :
        \E k \in FulfilledKeywords : includes(toLowerCase(statuses[j]), k)})

\* C4 as claimed: a group without a status override is Not Picked when none of
\* its sub-statuses is fulfilled, Preparing when some but not all are, and Ready
\* for Collection when all are (fulfilled: contains picked, ready, collected,
\* complete, completed, returned or issued).
C4_AsClaimed ==
    probe.listed =>
        \A i \in 1..Len(probe.bookings) :
            LET b == probe.bookings[i]
                total == Len(probe.groups[i].statuses)
                fulfilled == Fulfilled(probe.groups[i].statuses)
            IN  b.groupKey \notin DOMAIN statusFile.data =>
                   b.status = IF fulfilled = 0 THEN "Not Picked"
                              ELSE IF fulfilled < total THEN "Preparing"
                              ELSE "Ready for Collection"

(***************************************************************************)
(* Validation of the override requests, both builds, every body.           *)
(***************************************************************************)
NextValidation ==
    \E s \in Slots :
        \/ PostCategoryOverride(s, {Technician}, AssetNameInputs \X CategoryInputs)
        \/ PostUpdateStatus(s, {Technician}, KeyInputs \X StatusInputs)
        \/ ReadFileDone(s)
        \/ ReadFileMissing(s)
        \/ ReadFileError(s)
        \/ CreateFileDone(s)
        \/ WriteFileDone(s)
        \/ WriteFileError(s)

SpecValidation == Init /\ [][NextValidation]_vars

\* the body of request r is one the claim calls invalid
InvalidBody(r) ==
    \/ /\ r.op = "postCat"
       /\ \/ Falsy(r.arg1)
          \/ r.arg2.t # "string"
          \/ toLowerCase(r.arg2.s) \notin AllowedCategories
    \/ /\ r.op = "postStatus"
       /\ \/ Falsy(r.arg1)
          \/ r.arg2.t # "string"
          \/ toLowerCase(r.arg2.s) \notin AllowedStatuses

\* C5 as claimed: a set-category-override without an asset name or with a
\* category outside video, sound, lighting, grip, uncategorised, and a status
\* update without a key or with a status outside preparing, ready, notpicked,
\* not picked, clear, is answered with a client error (4xx) at once, and the
\* three files are as they were.
C5_AsClaimed ==
    [][\A s \in Slots :
          (req[s].pc = "idle" /\ req'[s].pc # "idle" /\ InvalidBody(req'[s])) =>
             /\ req'[s].pc = "done"
             /\ req'[s].resp.kind = "failure"
             /\ req'[s].resp.code \in 400..499
             /\ UNCHANGED Files]_vars

(***************************************************************************)
(* The read-modify-write cycle of the two override files, build 1.         *)
(***************************************************************************)
NextOverrides ==
    \E s \in Slots :
        \/ PostCategoryOverride(s, {Technician}, CategoryBodies)
        \/ PostUpdateStatus(s, {Technician}, StatusBodies(1))
        \/ ReadFileDone(s)
        \/ ReadFileMissing(s)
        \/ ReadFileError(s)
        \/ CreateFileDone(s)
        \/ WriteFileDone(s)
        \/ WriteFileError(s)

SpecOverrides == InitWith(1) /\ [][NextOverrides]_vars

\* the key request r writes under
KeyOf(r) == IF r.op = "postCat" THEN norm(r.arg1.s) ELSE r.arg1.s

\* slot s writes its map into its file in this step and answers success
WritesFile(s) ==
    /\ req[s].pc = "write" /\ req[s].op \in {"postCat", "postStatus"}
    /\ req'[s].pc = "done" /\ req'[s].resp.kind = "success"

\* C6: the cycle is not atomic.  A successful write puts the writer's own entry
\* into the file (the last write wins) and keeps every other entry of the file
\* unless the writer had read the file before another request rewrote it, or
\* its read had failed: the file is always replaced by what the writer had read
\* plus its own entry, so the entries written in between are lost.
C6_LastWriteWins ==
    [][\A s \in Slots :
          WritesFile(s) =>
             LET f      == req[s].file
                 before == IF FileOf(f).exists THEN FileOf(f).data ELSE EmptyMap
                 after  == IF f = "cat" THEN catFile'.data ELSE statusFile'.data
             IN  /\ after = req[s].local
                 /\ toLowerCase(req[s].arg2.s) # sClear
                       => /\ KeyOf(req[s]) \in DOMAIN after
                          /\ after[KeyOf(req[s])] = toLowerCase(req[s].arg2.s)
                 /\ (~req[s].stale /\ ~req[s].fell) =>
                       \A k \in DOMAIN before \ {KeyOf(req[s])} :
                          k \in DOMAIN after /\ after[k] = before[k]]_vars

\* two concurrent category overrides for different keys were both answered with
\* success, and categories.json holds the entry of the later one only
C6_Witness ==
    \E s, t \in Slots :
        /\ req[s].op = "postCat" /\ req[s].pc = "done" /\ req[s].resp.kind = "success"
        /\ req[t].op = "postCat" /\ req[t].pc = "done" /\ req[t].resp.kind = "success"
        /\ KeyOf(req[s]) # KeyOf(req[t])
        /\ acked.at[KeyOf(req[s])] < acked.at[KeyOf(req[t])]
        /\ req[t].stale /\ ~req[t].fell /\ ~req[s].fell
        /\ \A u \in Slots \ {s, t} : req[u].pc = "idle"
        /\ catFile.exists
        /\ DOMAIN catFile.data = {KeyOf(req[t])}

(***************************************************************************)
(* The token cache: listings come in as time passes.                       *)
(***************************************************************************)
MaxNow == 110000

NextJwt ==
    \/ \E s \in Slots :
          \/ GetBookings(s)
          \/ JwtRequestDone(s)
    \/ Tick({26000, 27000}, MaxNow)

SpecJwt == Init /\ [][NextJwt]_vars

\* slot s calls getJwt in this step
CallsGetJwt(s) == req[s].pc = "idle" /\ req'[s].op = "bookings"

\* slot s gets its answer from jwt_request in this step, with a token in it
TokenArrives(s) == req[s].pc = "jwt" /\ req'[s].pc = "fetch"

\* C7: getJwt asks upstream for a new token exactly when no token is cached or
\* the time is within 3 seconds of the cached token's expiry, or past it;
\* otherwise it returns the cached token, asks nothing and leaves the cache as
\* it is.  A token that arrives is cached with an expiry 55 seconds later.
C7_TokenCache ==
    [][\A s \in Slots :
          /\ CallsGetJwt(s) =>
                /\ req'[s].pc = "jwt" <=> (cachedJwt = <<>> \/ now >= jwtExpiry - 3000)
                /\ req'[s].pc # "jwt" =>
                      /\ req'[s].pc = "fetch" /\ req'[s].jwt = cachedJwt
                /\ UNCHANGED Cache
          /\ TokenArrives(s) =>
                /\ cachedJwt' = req'[s].jwt /\ cachedJwt' # <<>>
                /\ jwtExpiry' = now + 55000]_vars

\* a listing came in exactly 3 seconds before the cached token's expiry and is
\* waiting for a new token
C7_Witness ==
    \E s \in Slots :
        /\ req[s].pc = "jwt"
        /\ cachedJwt # <<>>
        /\ req[s].t0 = jwtExpiry - 3000

(***************************************************************************)
(* Curated lists and the category resolution.                              *)
(***************************************************************************)
\* the asset name matches an entry of list l: one contains the other, in any case
OnList(name, lists, l) ==
    \E i \in 1..Len(lists[l]) :
        \/ includes(toLowerCase(name), toLowerCase(lists[l][i]))
        \/ includes(toLowerCase(lists[l][i]), toLowerCase(name))

\* the category a curated list stands for
ListCategory(l) ==
    CASE l = "video" -> sVideo
      [] l = "grip" -> sGrip
      [] l = "lighting" -> sLighting
      [] OTHER -> sSound

\* C8 as claimed: a row whose asset name matches an entry of exactly one curated
\* list, and has no category override, is given that list's category, whatever
\* its upstream category-hint fields say.
C8_AsClaimed ==
    (probe.listed /\ variant = 1) =>
        \A a \in AssetsOf(probe.groups) :
            \A l \in ListNameSet :
                (/\ OnList(a.name, listsFile.data, l)
                 /\ \A m \in ListNameSet \ {l} : ~OnList(a.name, listsFile.data, m)
                 /\ ~Truthy(catFile.data, norm(a.name)))
                   => a.category = ListCategory(l)

(***************************************************************************)
(* The answers of the routes.                                              *)
(***************************************************************************)
\* C9 as claimed: every operation, whatever its collaborators do (token request,
\* listbookings, file read, file write, each succeeding or failing), ends with
\* one answer to the caller: a success payload or a structured failure payload.
C9_AsClaimed ==
    \A s \in Slots :
        req[s].pc = "done" => req[s].resp.kind \in {"success", "failure"}

(***************************************************************************)
(* Time buckets: getTimeBucket on two timestamps and a window.             *)
(***************************************************************************)
MaxMinute == 6

Stamps ==
    {TS(shape, ymd[1], ymd[2], ymd[3], 10, mi, ss, TRUE) :
        shape \in {"dmy", "ymd", "iso"},
        ymd \in {<<2024, 6, 1>>, <<1969, 12, 31>>},
        mi \in 0..MaxMinute, ss \in {0, 59}}
    \cup {TS("ymd", 2024, 6, 1, 0, 0, 0, FALSE), TS("dmy", 2024, 6, 1, 0, 0, 0, FALSE),
          TS("junk", 0, 0, 0, 0, 0, 0, FALSE)}

Windows == {1, 5, 7}

InitBucket ==
    \E v \in {1, 2}, zone \in {0, 60}, t1 \in Stamps, t2 \in Stamps, n \in Windows :
        /\ variant = v
        /\ listsFile = NoFile
        /\ catFile = NoFile
        /\ statusFile = NoFile
        /\ tz = zone
        /\ now = 0
        /\ defaultLists = DEFAULT_LISTS
        /\ cachedJwt = <<>>
        /\ jwtExpiry = 0
        /\ req = [s \in Slots |-> Idle]
        /\ acked = NoAcks
        /\ probe = [t1 |-> t1, t2 |-> t2, n |-> n, b1 |-> <<>>, b2 |-> <<>>,
                    bucketed |-> FALSE]

\* getTimeBucket(t1, n) and getTimeBucket(t2, n)
BucketBoth ==
    /\ ~probe.bucketed
    /\ probe' = [probe EXCEPT !.b1 = getTimeBucket(variant, probe.t1, probe.n, tz),
                              !.b2 = getTimeBucket(variant, probe.t2, probe.n, tz),
                              !.bucketed = TRUE]
    /\ UNCHANGED <<Files, Cache, variant, tz, now, defaultLists, req, acked>>

SpecBucket == InitBucket /\ [][BucketBoth]_vars

\* the Date getTimeBucket makes of the timestamp
parsedDate(v, ts, zone) ==
    IF ts.shape = "empty" THEN InvalidDate
    ELSE IF v = 1 THEN parseForBucket1(ts, zone) ELSE parseDirect(ts, zone)

\* the number a string of digits stands for
digitOf(c) == CHOOSE i \in 0..9 : DigitChars[i + 1] = c

RECURSIVE numberOf(_)
numberOf(digits) ==
    IF digits = <<>> THEN 0
    ELSE numberOf(SubSeq(digits, 1, Len(digits) - 1)) * 10 + digitOf(digits[Len(digits)])

\* the instant YYYY-MM-DDTHH:MM:SS.mmmZ stands for
instantOf(iso) ==
    [min |-> daysFromCivil(numberOf(SubSeq(iso, 1, 4)), numberOf(SubSeq(iso, 6, 7)),
                           numberOf(SubSeq(iso, 9, 10))) * 1440
             + numberOf(SubSeq(iso, 12, 13)) * 60 + numberOf(SubSeq(iso, 15, 16)),
     ms  |-> numberOf(SubSeq(iso, 18, 19)) * 1000 + numberOf(SubSeq(iso, 21, 23))]

\* the bucket is a multiple of n minutes, not after the instant d and less than
\* n minutes before it
AlignedBelow(bucket, d, n) ==
    LET b == instantOf(bucket)
    IN  /\ Len(bucket) = 24
        /\ b.ms = 0 /\ b.min % n = 0
        /\ b.min <= d.min
        /\ d.min - b.min < n

\* C10: for two parseable timestamps and a window of n minutes, the buckets are
\* equal exactly when the two instants have the same floor(t / n minutes) from
\* the epoch, and each bucket is a multiple of n minutes that is not after its
\* timestamp and less than n minutes before it.
C10_WindowAligned ==
    probe.bucketed =>
        LET d1 == parsedDate(variant, probe.t1, tz)
            d2 == parsedDate(variant, probe.t2, tz)
        IN  (d1.valid /\ d2.valid) =>
               /\ probe.b1 = probe.b2 <=> d1.min \div probe.n = d2.min \div probe.n
               /\ AlignedBelow(probe.b1, d1, probe.n)
               /\ AlignedBelow(probe.b2, d2, probe.n)

\* 10:04:59 and 10:05:00 of the same day, window 5: two different buckets
C10_Witness ==
    /\ probe.bucketed /\ probe.n = 5
    /\ probe.t1 = TS("ymd", 2024, 6, 1, 10, 4, 59, TRUE)
    /\ probe.t2 = TS("ymd", 2024, 6, 1, 10, 5, 0, TRUE)
    /\ probe.b1 # probe.b2
    /\ Len(probe.b1) = 24 /\ Len(probe.b2) = 24

(***************************************************************************)
(* The write routes under every kind of Authorization header, both builds. *)
(***************************************************************************)
AuthStatusBodies == { <<JStr(KeyAlice), JStr(sReady)>>, <<JStr(KeyAlice), JStr(sClear)>> }

NextAuth ==
    \E s \in Slots :
        \/ PostLists(s, AuthInputs, {[k \in {"video"} |-> <<sA7>>]})
        \/ PostCategoryOverride(s, AuthInputs, {<<JStr(sA7), JStr(sVideo)>>})
        \/ PostUpdateStatus(s, AuthInputs, AuthStatusBodies)
        \/ ReadFileDone(s)
        \/ ReadFileMissing(s)
        \/ ReadFileError(s)
        \/ CreateFileDone(s)
        \/ WriteFileDone(s)
        \/ WriteFileError(s)

SpecAuth == Init /\ [][NextAuth]_vars

WriteOps == {"postLists", "postCat", "postStatus"}

\* the request came with the technician secret
HoldsSecret(r) == r.cred = JStr(TECH_PASSWORD)

\* the map a file stands for: a missing file reads as the fallback
MapOf(f) == IF FileOf(f).exists THEN FileOf(f).data ELSE Fallback(f)

Maps == <<MapOf("lists"), MapOf("cat"), MapOf("status")>>

\* C11 as claimed: a request to a write operation (update the curated lists, set
\* a category override, set or clear a status override) that does not carry the
\* technician secret is rejected on arrival with a client error, and no step of
\* such a request changes the curated lists, the category override map or the
\* status override map.
C11_AsClaimed ==
    [][\A s \in Slots :
          (req'[s] # req[s] /\ req'[s].op \in WriteOps /\ ~HoldsSecret(req'[s])) =>
             /\ req'[s].pc = "done"
             /\ req'[s].resp.kind = "failure"
             /\ req'[s].resp.code \in 400..499
             /\ Maps' = Maps]_vars
====
